---------------------------- MODULE Spec2Model ----------------------------
(***************************************************************************)
(* A model of the orvi-agent sequence-execution engine:                    *)
(*   - SequenceExecutor (sequence_executor.py): process_steps,             *)
(*     process_sequence, execute;                                          *)
(*   - PlaywrightEngine.execute_action / start / stop (automaton.py);      *)
(*   - SmartRetryLoop.run with its validation polling and cleanup          *)
(*     (automaton.py);                                                     *)
(*   - the challenge-key normalisation of dynamic_input.                   *)
(* Text values are sequences of one-character strings, so that strip,      *)
(* replace, startswith and rstrip are computed as Python computes them.    *)
(***************************************************************************)
EXTENDS Integers, Sequences, FiniteSets, TLC

(***************************************************************************)
(* Bounds of the model.                                                    *)
(***************************************************************************)
MaxSeqs == 2
MaxSteps == 2
MaxIntents == 2
MaxFaults == 2
MaxClock == 1
MaxCalls == 2
MaxRawLen == 3
MaxParts == 3
MaxRunSteps == 2
MaxPolls == 2
MaxRunFaults == 3

(***************************************************************************)
(* Text helpers.                                                           *)
(***************************************************************************)
None == <<"None">>

Str(s) == [i \in 1..Len(s) |-> s[i]]

IsSpace(c) == c \in {" ", "\n", "\t"}

StartsWith(s, p) ==
    /\ Len(s) >= Len(p)
    /\ SubSeq(s, 1, Len(p)) = p

RECURSIVE LStrip(_)
LStrip(s) ==
    IF s # <<>> /\ IsSpace(Head(s)) THEN LStrip(Tail(s)) ELSE s

RECURSIVE RStrip(_)
RStrip(s) ==
    IF s # <<>> /\ IsSpace(s[Len(s)]) THEN RStrip(SubSeq(s, 1, Len(s) - 1)) ELSE s

\* str.strip(): surrounding whitespace removed
Strip(s) == RStrip(LStrip(s))

\* str.replace(c, ""): every occurrence of c removed
RemoveAll(s, c) == SelectSeq(s, LAMBDA x : x # c)

RECURSIVE RStripChar(_, _)
\* str.rstrip(c): every trailing c removed
RStripChar(s, c) ==
    IF s # <<>> /\ s[Len(s)] = c THEN RStripChar(SubSeq(s, 1, Len(s) - 1), c) ELSE s

\* the index of the first occurrence of p in s at or after position i, 0 if none
RECURSIVE Find(_, _, _)
Find(s, p, i) ==
    IF i + Len(p) - 1 > Len(s) THEN 0
    ELSE IF SubSeq(s, i, i + Len(p) - 1) = p THEN i
    ELSE Find(s, p, i + 1)

\* sequence_executor.py line 105
NormalizeKey(raw_text) ==
    IF StartsWith(raw_text, <<"0">>) /\ Len(raw_text) = 2
    THEN RemoveAll(Strip(raw_text), "0")
    ELSE Strip(raw_text)


(***************************************************************************)
(* Values shared by the program's layers.                                  *)
(***************************************************************************)
Line(level, text, arg) == [level |-> level, text |-> text, arg |-> arg]

Op(name, a, b) == [op |-> name, a |-> a, b |-> b]

\* what an operation of a layer gives back: whether it raised (and what),
\* the log lines it appended, the driver and resolver calls it made, the
\* page location it left and the artifacts it generated
Outcome(raised, err, lines, calls, location, files) ==
    [raised |-> raised, err |-> err, logs |-> lines, ops |-> calls,
     url |-> location, files |-> files]

ETimeout == <<"Timeout">>
ENoneType == <<"NoneType">>
ECaptcha == <<"Captcha Solve Failed">>
EKeyMissing(key) == <<"Key not found in provided coordinates: ">> \o key

File(kind, a, b, c) == [kind |-> kind, a |-> a, b |-> b, c |-> c]

\* a run of driver calls of which call number fail (0: none) raises: the
\* calls before it were made, the failing one was attempted
Issued(calls, fail) ==
    IF fail = 0 \/ fail > Len(calls) THEN calls ELSE SubSeq(calls, 1, fail)

Fails(calls, fail) == fail >= 1 /\ fail <= Len(calls)

(***************************************************************************)
(* The environment and the coordinate table of the request.                *)
(***************************************************************************)
EnvNames == {<<"U">>}

Getenv(name, default) == IF name \in EnvNames THEN <<"alice">> ELSE default

CoordinateKeys == {<<"1">>, <<"3">>}

\* coordinates.get(key): None for a key the table does not hold
CoordinatesGet(key) ==
    IF key = <<"1">> THEN <<"7364">>
    ELSE IF key = <<"3">> THEN <<>>
    ELSE None

\* Python truthiness of an Optional[str]
Truthy(v) == v # None /\ v # <<>>

(***************************************************************************)
(* SequenceExecutor.resolve_data                                           *)
(***************************************************************************)
EnvPrefix == <<"e", "n", "v", ":">>

\* data.split("env:")[1]: the text between the first and the second "env:"
SplitEnvSecond(data) ==
    LET first == Find(data, EnvPrefix, 1)
        from == first + Len(EnvPrefix)
        next == Find(data, EnvPrefix, from)
    IN  IF next = 0 THEN SubSeq(data, from, Len(data))
        ELSE SubSeq(data, from, next - 1)

resolve_data(data) ==
    IF Truthy(data) /\ StartsWith(data, EnvPrefix)
    THEN Getenv(SplitEnvSecond(data), <<>>)
    ELSE data

(***************************************************************************)
(* PlaywrightEngine.execute_action, the solve_captcha branch, as           *)
(* process_steps calls it: the action carries no "optional" key, so the    *)
(* handler at lines 293-298 re-raises.  d holds what the collaborators     *)
(* answer: shot (the element screenshot was taken), proc (process_image    *)
(* succeeded), text (the resolver's answer, <<>> when unsolved), fail = 2  *)
(* (page.fill raises).  t is int(time.time()).                             *)
(***************************************************************************)
solve_captcha(img_selector, input_selector, d, t, location) ==
    LET captcha_file == File("captcha", t, 0, 0)
        processed_file == File("captcha_clean", t, 0, 0)
        shotOp == Op("screenshot_element", img_selector, <<>>)
    IN  IF ~d.shot
        THEN Outcome(FALSE, <<>>, <<>>, <<shotOp>>, location, <<>>)
        ELSE LET files == IF d.proc THEN <<captcha_file, processed_file>>
                          ELSE <<captcha_file>>
                 target_file == IF d.proc THEN processed_file ELSE captcha_file
                 solveOp == Op("solve_image", <<target_file.kind>>, <<>>)
                 fillOp == Op("fill", input_selector, d.text)
             IN  IF d.text # <<>>
                 THEN Outcome(d.fail = 2, IF d.fail = 2 THEN ETimeout ELSE <<>>,
                              <<>>, <<shotOp, solveOp, fillOp>>, location, files)
                 ELSE Outcome(TRUE, ECaptcha, <<>>, <<shotOp, solveOp>>,
                              location, files)

\* a navigation that compares the location and the target as they are
step_navigate_exact(data, d, location) ==
    IF data = None
    THEN Outcome(TRUE, ENoneType, <<>>, <<>>, location, <<>>)
    ELSE IF location = data
         THEN Outcome(d.fail = 1, IF d.fail = 1 THEN ETimeout ELSE <<>>,
                      <<Line("INFO", "Already on. Forcing RELOAD", data)>>,
                      <<Op("reload", <<>>, <<>>)>>, location, <<>>)
         ELSE Outcome(d.fail = 1, IF d.fail = 1 THEN ETimeout ELSE <<>>,
                      <<>>, <<Op("goto", data, <<>>)>>,
                      IF d.fail = 1 THEN location ELSE data, <<>>)

(***************************************************************************)
(* SequenceExecutor.process_steps: the body of the loop for one step.      *)
(* d.fail is the number of the driver call of the step that raises         *)
(* (0: none does).                                                         *)
(***************************************************************************)
step_navigate(data, d, location) ==
    IF data = None
    THEN \* None.rstrip raises AttributeError
         Outcome(TRUE, ENoneType, <<>>, <<>>, location, <<>>)
    ELSE LET current_url == RStripChar(location, "/")
             target_url == RStripChar(data, "/")
         IN  IF current_url = target_url
             THEN Outcome(d.fail = 1, IF d.fail = 1 THEN ETimeout ELSE <<>>,
                          <<Line("INFO", "Already on. Forcing RELOAD", target_url)>>,
                          <<Op("reload", <<>>, <<>>)>>, location, <<>>)
             ELSE Outcome(d.fail = 1, IF d.fail = 1 THEN ETimeout ELSE <<>>,
                          <<>>, <<Op("goto", data, <<>>)>>,
                          IF d.fail = 1 THEN location ELSE data, <<>>)

step_input(element, data, d, location) ==
    LET calls == << Op("wait_for_selector", element, <<"5000">>),
                    Op("click", element, <<>>),
                    Op("press", <<"Control+A">>, <<>>),
                    Op("press", <<"Backspace">>, <<>>),
                    Op("type", element, data) >>
    IN  Outcome(Fails(calls, d.fail), IF Fails(calls, d.fail) THEN ETimeout ELSE <<>>,
                <<>>, Issued(calls, d.fail), location, <<>>)

step_click(element, optional, d, location) ==
    LET timeout == IF optional THEN <<"2000">> ELSE <<"5000">>
        calls == << Op("wait_for_selector", element, timeout),
                    Op("click", element, <<>>) >>
    IN  Outcome(Fails(calls, d.fail), IF Fails(calls, d.fail) THEN ETimeout ELSE <<>>,
                <<>>, Issued(calls, d.fail), location, <<>>)

\* a captcha step that solves without probing the image's visibility
step_captcha_no_probe(element, data, d, t, location) ==
    LET r == solve_captcha(data, element, [d EXCEPT !.shot = TRUE], t, location)
    IN  Outcome(r.raised, r.err,
                <<Line("INFO", "Captcha detected. Solving", data)>>,
                r.ops, location, r.files)

step_captcha(element, data, d, t, location) ==
    LET probe == Op("is_visible", data, <<>>)
    IN  IF d.fail = 1
        THEN Outcome(TRUE, ETimeout, <<>>, <<probe>>, location, <<>>)
        ELSE IF d.visible
        THEN LET r == solve_captcha(data, element, d, t, location)
             IN  Outcome(r.raised, r.err,
                         <<Line("INFO", "Captcha detected. Solving", data)>>,
                         <<probe>> \o r.ops, location, r.files)
        ELSE Outcome(FALSE, <<>>,
                     <<Line("INFO", "Captcha NOT detected. Skipping step", data)>>,
                     <<probe>>, location, <<>>)

step_dynamic_input(element, data, d, location) ==
    LET read_selector == data
        write_selector == element
        readCalls == << Op("wait_for_selector", read_selector, <<"5000">>),
                        Op("inner_text", read_selector, <<>>) >>
        key == NormalizeKey(d.raw)
        value == CoordinatesGet(key)
        writeCalls == << Op("wait_for_selector", write_selector, <<"5000">>),
                         Op("fill", write_selector, value) >>
        keyLine == Line("INFO", "Challenge Key Detected", key)
    IN  IF Fails(readCalls, d.fail)
        THEN Outcome(TRUE, ETimeout, <<>>, Issued(readCalls, d.fail), location, <<>>)
        ELSE IF Truthy(value)
        THEN Outcome(Fails(writeCalls, d.fail - 2),
                     IF Fails(writeCalls, d.fail - 2) THEN ETimeout ELSE <<>>,
                     <<keyLine, Line("INFO", "Value Found", value)>>,
                     readCalls \o Issued(writeCalls, d.fail - 2), location, <<>>)
        ELSE Outcome(TRUE, EKeyMissing(key), <<keyLine>>, readCalls, location, <<>>)

\* lines 58-117: the dispatch on the step's action
step_action(step, data, d, t, location) ==
    CASE step.action = "navigate" -> step_navigate(data, d, location)
      [] step.action = "input" -> step_input(step.element, data, d, location)
      [] step.action = "click" -> step_click(step.element, step.optional, d, location)
      [] step.action = "captcha" -> step_captcha(step.element, data, d, t, location)
      [] step.action = "wait" -> Outcome(FALSE, <<>>, <<>>, <<>>, location, <<>>)
      [] step.action = "dynamic_input" ->
            step_dynamic_input(step.element, data, d, location)
      [] OTHER -> Outcome(FALSE, <<>>, <<>>, <<>>, location, <<>>)

\* a loop that never waits after a step
post_wait_never(step) == [logs |-> <<>>, ops |-> <<>>]

\* lines 119-122: the post-step wait, reached when the action did not raise
post_wait(step) ==
    IF step.wait_after > 0
    THEN [logs |-> <<Line("INFO", "Waiting", <<>>)>>,
          ops |-> <<Op("sleep", <<"wait_after">>, <<>>)>>]
    ELSE [logs |-> <<>>, ops |-> <<>>]

\* a handler that absorbs the failure of every step
step_except_never_raises(step, r) ==
    Outcome(FALSE, r.err,
            r.logs \o <<Line("INFO", "Optional step failed/skipped. Continuing", r.err)>>,
            r.ops, r.url, r.files)

\* a handler that raises again whatever the step's optional flag
step_except_always_raises(step, r) ==
    Outcome(TRUE, r.err, r.logs \o <<Line("ERROR", "Error in step", r.err)>>,
            r.ops, r.url, r.files)

\* lines 124-129: the handler of a step's exception; its raised field says
\* whether the exception is raised again
step_except(step, r) ==
    IF step.optional
    THEN Outcome(FALSE, r.err,
                 r.logs \o <<Line("INFO", "Optional step failed/skipped. Continuing", r.err)>>,
                 r.ops, r.url, r.files)
    ELSE Outcome(TRUE, r.err,
                 r.logs \o <<Line("ERROR", "Error in step", r.err)>>,
                 r.ops, r.url, r.files)

\* lines 49-129: one iteration of the loop of process_steps
process_step(step, d, t, location) ==
    LET data == resolve_data(step.data)
        startLine == Line("INFO", "Executing Step",
                          <<step.action, IF step.optional THEN "True" ELSE "False">>)
        r == step_action(step, data, d, t, location)
        body == IF r.raised THEN r
                ELSE Outcome(FALSE, <<>>, r.logs \o post_wait(step).logs,
                             r.ops \o post_wait(step).ops, r.url, r.files)
        h == IF body.raised THEN step_except(step, body) ELSE body
    IN  [h EXCEPT !.logs = <<startLine>> \o h.logs]

(***************************************************************************)
(* The lines the engine layer emits during one step, with the logging      *)
(* module: execute_action (automaton.py lines 256, 268, 285, 288, 298),    *)
(* process_image (lines 309, 313).  Only a captcha step whose image is     *)
(* visible reaches the engine layer (sequence_executor.py lines 83-90).    *)
(***************************************************************************)
engine_logging(step, d) ==
    IF step.action = "captcha" /\ d.fail # 1 /\ d.visible
    THEN <<Line("INFO", "Solving Captcha", step.data)>>
         \o IF ~d.shot
            THEN <<Line("INFO", "Captcha image element not found", step.data)>>
            ELSE <<Line("INFO", "Captcha image saved", <<>>),
                   IF d.proc THEN Line("INFO", "Image processed and saved", <<>>)
                   ELSE Line("INFO", "Error processing image", <<>>)>>
                 \o IF d.text = <<>>
                    THEN <<Line("ERROR", "Failed to solve captcha", <<>>),
                           Line("INFO", "Action Error", ECaptcha)>>
                    ELSE IF d.fail = 2
                    THEN <<Line("INFO", "Action Error", ETimeout)>>
                    ELSE <<>>
    ELSE <<>>

(***************************************************************************)
(* What the collaborators may answer to one step.                          *)
(***************************************************************************)
NoResponse ==
    [fail |-> 0, visible |-> FALSE, shot |-> FALSE, proc |-> FALSE,
     text |-> <<>>, raw |-> <<>>, tick |-> 0]

\* the challenge texts the page shows in the runs of the executor
RawTexts == { <<"0", "1">>, <<"1">>, <<"2">>, <<"3">> }

CaptchaResponses ==
    { [NoResponse EXCEPT !.fail = 1] }
    \cup { [NoResponse EXCEPT !.tick = k] : k \in 0..1 }
    \cup { [NoResponse EXCEPT !.visible = TRUE, !.tick = k] : k \in 0..1 }
    \cup { [NoResponse EXCEPT !.visible = TRUE, !.shot = TRUE, !.proc = p,
                              !.text = x, !.fail = f, !.tick = k] :
             p \in BOOLEAN, x \in {<<>>, <<"Ab3d">>}, f \in {0, 2}, k \in 0..1 }

Responses(step) ==
    CASE step.action = "navigate" -> { [NoResponse EXCEPT !.fail = f] : f \in 0..1 }
      [] step.action = "input" -> { [NoResponse EXCEPT !.fail = f] : f \in 0..5 }
      [] step.action = "click" -> { [NoResponse EXCEPT !.fail = f] : f \in 0..2 }
      [] step.action = "captcha" -> CaptchaResponses
      [] step.action = "dynamic_input" ->
            { [NoResponse EXCEPT !.fail = f, !.raw = x] : f \in 0..4, x \in RawTexts }
      [] OTHER -> { NoResponse }

(***************************************************************************)
(* The state of one SequenceExecutor.execute call and of its engine.       *)
(***************************************************************************)
VARIABLES
    sequences,        \* the request's sequences
    pc,               \* where execute is
    seqIdx,           \* the sequence the loop of execute is at (0: none yet)
    intent,           \* the attempt process_sequence is at (0: none yet)
    stepIdx,          \* the steps of the attempt that process_steps has run
    logs,             \* self.logs
    success,          \* the local of execute
    screenshot,       \* screenshot_filename, None before it is set
    engine,           \* the engine's playwright, browser, context and page
    url,              \* engine.page.url
    generated_files,  \* engine.generated_files
    now,              \* int(time.time())
    result,           \* what execute returned, NoResult before it returns
    pending,          \* the exception on its way out of execute, <<>> if none
    response,         \* what the /execute endpoint answered, NoResult before
    faults,           \* the failures the collaborators have produced so far
    ops,              \* the collaborator calls of the last action
    last,             \* the last step run: its place and how it ended
    dispatched,       \* per sequence, the steps handed to process_steps
    seqResult,        \* per sequence, what process_sequence returned
    call_no,          \* the calls of execute made on the executor
    earlier,          \* the result of the call before, as its caller holds it
    raw_text,         \* the challenge text whose key is computed
    key,              \* the key computed from raw_text, None before
    step_data,        \* the data of a step that resolve_data is given
    resolved,         \* what resolve_data returned for it, NotYet before
    mission_steps,    \* SmartRetryLoop: the mission's steps
    rpc,              \* SmartRetryLoop: where run is
    step_index,       \* SmartRetryLoop.run: the step of the mission
    attempts,         \* SmartRetryLoop.run: the attempts made of the step
    action_index,     \* SmartRetryLoop.run: the actions of the attempt done
    val_attempt,      \* SmartRetryLoop.run: the polls made in the attempt
    run_success,      \* SmartRetryLoop.run: success, "unbound" before it is set
    val_files,        \* SmartRetryLoop.generated_files
    disk,             \* the artifact files that exist
    created,          \* the artifacts generated, in the order of their creation
    removed,          \* the files the cleanup removed
    wall,             \* two missions in one process: the time they share
    concurrent,       \* two missions in one process: the state of each
    shared_disk       \* two missions in one process: the files that exist

vars == << sequences, pc, seqIdx, intent, stepIdx, logs, success, screenshot,
           engine, url, generated_files, now, result, pending, response,
           faults, ops, last, dispatched, seqResult, call_no, earlier, raw_text, key,
           step_data, resolved, mission_steps, rpc, step_index, attempts, action_index, val_attempt,
           run_success, val_files, disk, created, removed,
           wall, concurrent, shared_disk >>

\* the state of the executor, of the key computation and of the retry loop
execVars == << sequences, pc, seqIdx, intent, stepIdx, logs, success, screenshot,
               url, result, pending, response, last, dispatched, seqResult,
               call_no, earlier >>

callVars == << call_no, earlier >>

keyVars == << raw_text, key, step_data, resolved >>

runVars == << mission_steps, rpc, step_index, attempts, action_index,
              val_attempt, run_success, val_files, disk, created, removed >>

shareVars == << wall, concurrent, shared_disk >>

Step(action, element, data, wait_after, optional) ==
    [action |-> action, element |-> element, data |-> data,
     wait_after |-> wait_after, optional |-> optional]

Sequence(title, intents_number, target_element, steps) ==
    [title |-> title, intents_number |-> intents_number,
     target_element |-> target_element, steps |-> steps]

UrlA == <<"h", "/", "a">>
UrlB == <<"h", "/", "b">>

\* the steps of the missions that exercise the runner and the executor
FlowSteps == { Step("click", <<"#go">>, None, 1, o) : o \in BOOLEAN }

\* the steps that exercise every action of the interpreter
KindSteps ==
    { Step("navigate", None, u, 1, o) : u \in {UrlA, UrlA \o <<"/">>, UrlB}, o \in BOOLEAN }
    \cup { Step("input", <<"#user">>, v, 1, o) :
             v \in {<<"x">>, EnvPrefix \o <<"U">>, EnvPrefix \o <<"V">>}, o \in BOOLEAN }
    \cup { Step("click", <<"#go">>, None, w, o) : w \in 0..1, o \in BOOLEAN }
    \cup { Step("wait", None, None, w, o) : w \in 0..1, o \in BOOLEAN }
    \cup { Step("captcha", <<"#code">>, <<"#img">>, 1, o) : o \in BOOLEAN }
    \cup { Step("dynamic_input", <<"#pos">>, <<"#key">>, 1, o) : o \in BOOLEAN }
    \cup { Step("hover", <<"#go">>, None, 1, o) : o \in BOOLEAN }

StepLists(S, n) == UNION { [1..k -> S] : k \in 0..n }

Targets == { None, <<"#done">> }

\* missions of up to MaxSeqs sequences that share one list of click steps
\* and one number of attempts, each sequence with or without a target
FlowMissions ==
    UNION { { [i \in 1..n |-> Sequence(<<"s">>, it, tg[i], st)] :
                it \in 0..MaxIntents, tg \in [1..n -> Targets],
                st \in StepLists(FlowSteps, MaxSteps) } : n \in 0..MaxSeqs }

\* the steps placed around the step under study: a click, or a navigation
\* that leaves the page at UrlA
LeadSteps == { Step("click", <<"#go">>, None, 1, FALSE),
               Step("navigate", None, UrlA, 1, FALSE) }

\* missions of one sequence, one attempt: one step of any kind placed among
\* lead steps
KindLists ==
    UNION { { [i \in 1..k |-> IF i = p THEN s ELSE f[i]] :
                p \in 1..k, s \in KindSteps, f \in [1..k -> LeadSteps] } :
            k \in 1..MaxSteps }

KindMissions ==
    { << Sequence(<<"k">>, 1, tg, st) >> : tg \in Targets, st \in KindLists }

NoLast == [seq |-> 0, idx |-> 0, intent |-> 0, raised |-> FALSE, err |-> <<>>,
           d |-> NoResponse, emitted |-> <<>>]

NoResult == [returned |-> FALSE, success |-> FALSE, logs |-> <<>>,
             screenshot |-> None]

NoEngine == [playwright |-> "None", browser |-> "None", context |-> "None",
             page |-> "None"]

ExecIdle(missions) ==
    /\ sequences \in missions
    /\ pc = "start"
    /\ seqIdx = 0
    /\ intent = 0
    /\ stepIdx = 0
    /\ logs = <<>>
    /\ success = TRUE
    /\ screenshot = None
    /\ url = <<"about:blank">>
    /\ result = NoResult
    /\ pending = <<>>
    /\ response = NoResult
    /\ last = NoLast
    /\ dispatched = [i \in DOMAIN sequences |-> 0]
    /\ seqResult = [i \in DOMAIN sequences |-> "none"]
    /\ call_no = 1
    /\ earlier = NoResult

EngineIdle ==
    /\ engine = NoEngine
    /\ generated_files = <<>>
    /\ now = 0
    /\ faults = 0
    /\ ops = <<>>

KeyIdle(texts) ==
    /\ raw_text \in texts
    /\ key = None

NotYet == <<"not yet">>

ResolveIdle(values) ==
    /\ step_data \in values
    /\ resolved = NotYet

RunIdle(missions) ==
    /\ mission_steps \in missions
    /\ rpc = "start"
    /\ step_index = 0
    /\ attempts = 0
    /\ action_index = 0
    /\ val_attempt = 0
    /\ run_success = "unbound"
    /\ val_files = <<>>
    /\ disk = {}
    /\ created = <<>>
    /\ removed = {}

\* a mission of those that share the process
NoMission == [kind |-> "none", at |-> "done", steps |-> 0, engine_files |-> <<>>,
              val_files |-> <<>>, shots |-> <<>>, removed |-> {}]

Mission(kind) ==
    [NoMission EXCEPT !.kind = kind,
                      !.at = IF kind = "none" THEN "done" ELSE "running"]

ShareIdle(kinds) ==
    /\ wall = 0
    /\ concurrent \in [1..2 -> { Mission(k) : k \in kinds }]
    /\ shared_disk = {}

InitWith(missions) ==
    /\ ExecIdle(missions)
    /\ EngineIdle
    /\ KeyIdle({<<>>})
    /\ ResolveIdle({None})
    /\ RunIdle({<<>>})
    /\ ShareIdle({"none"})

Init == InitWith(FlowMissions)

InitSteps == InitWith(KindMissions)

(***************************************************************************)
(* PlaywrightEngine.start and stop.  k is the call of start that raises    *)
(* (1: the Playwright runtime, 2: launch, 3: new_context,                  *)
(* 4: grant_permissions, 5: new_page; 0: none).                            *)
(***************************************************************************)
engine_start(k) ==
    [playwright |-> IF k = 1 THEN "None" ELSE "open",
     browser |-> IF k \in 1..2 THEN "None" ELSE "open",
     context |-> IF k \in 1..3 THEN "None" ELSE "open",
     page |-> IF k = 0 THEN "open" ELSE "None"]

\* the close calls stop makes, in its order: only what start acquired
StopCalls(e) ==
    SelectSeq(<<"context", "browser", "playwright">>, LAMBDA f : e[f] # "None")

\* stop with its k-th close call raising (0: none): the calls before it
\* closed their resource, the failing one and those after it did not
engine_stop(e, k) ==
    LET calls == StopCalls(e)
        done == IF Fails(calls, k) THEN k - 1 ELSE Len(calls)
        closed == { calls[i] : i \in 1..done }
    IN  [f \in DOMAIN e |->
            IF f \in closed \/ (f = "page" /\ "context" \in closed /\ e[f] = "open")
            THEN "closed" ELSE e[f]]

(***************************************************************************)
(* SequenceExecutor.execute, lines 173-178: the logs are reset, the engine *)
(* is made and started; a failure of start is caught at lines 194-196.     *)
(***************************************************************************)
\* a handler that lets the error go on
execute_except_uncaught(err) ==
    [logs |-> <<>>, success |-> success, caught |-> FALSE]

execute_except(err) ==
    [logs |-> <<Line("ERROR", "CRITICAL UNHANDLED ERROR", err)>>,
     success |-> FALSE, caught |-> TRUE]

Start ==
    /\ UNCHANGED << keyVars, runVars, shareVars, callVars >>
    /\ last' = NoLast
    /\ pc = "start"
    /\ \E k \in 0..5 :
         /\ k # 0 => faults < MaxFaults
         /\ engine' = engine_start(k)
         /\ faults' = IF k # 0 THEN faults + 1 ELSE faults
         /\ ops' = <<Op("start", <<>>, <<>>)>>
         /\ IF k = 0
            THEN /\ logs' = <<>>
                 /\ success' = TRUE
                 /\ pending' = <<>>
                 /\ pc' = "next_seq"
            ELSE /\ logs' = execute_except(ETimeout).logs
                 /\ success' = execute_except(ETimeout).success
                 /\ pending' = IF execute_except(ETimeout).caught THEN <<>>
                                ELSE ETimeout
                 /\ pc' = "final_shot"
    /\ UNCHANGED << sequences, seqIdx, intent, stepIdx, screenshot, url,
                    generated_files, now, result, response, dispatched, seqResult >>

(***************************************************************************)
(* execute, lines 181-192: the loop over the sequences, with the head of   *)
(* process_sequence (lines 133-139).                                       *)
(***************************************************************************)
FlowFinished == <<Line("INFO", "FLOW FINISHED", <<>>)>>

NextSequence ==
    /\ UNCHANGED << keyVars, runVars, shareVars, callVars >>
    /\ last' = NoLast
    /\ pc = "next_seq"
    /\ IF seqIdx < Len(sequences)
       THEN /\ seqIdx' = seqIdx + 1
            /\ intent' = 0
            /\ stepIdx' = 0
            /\ logs' = Append(logs, Line("INFO", "SELECTING SEQUENCE",
                                         sequences[seqIdx + 1].title))
            /\ pc' = "attempt"
       ELSE /\ logs' = logs \o FlowFinished
            /\ pc' = "final_shot"
            /\ UNCHANGED << seqIdx, intent, stepIdx >>
    /\ ops' = <<>>
    /\ UNCHANGED << sequences, success, screenshot, engine, url, generated_files,
                    now, result, pending, response, faults, dispatched,
                    seqResult >>

\* a loop that notes the failure and goes on to the next sequence
after_sequence_no_break(seq_success) ==
    IF ~seq_success
    THEN [logs |-> <<Line("ERROR", "FLOW ABORTED", <<>>)>>, success |-> FALSE,
          brk |-> FALSE]
    ELSE [logs |-> <<>>, success |-> success, brk |-> FALSE]

\* execute, lines 183-186: what a sequence's result does to the mission
after_sequence(seq_success) ==
    IF ~seq_success
    THEN [logs |-> <<Line("ERROR", "FLOW ABORTED", <<>>)>>, success |-> FALSE,
          brk |-> TRUE]
    ELSE [logs |-> <<>>, success |-> success, brk |-> FALSE]

\* process_sequence returns seq_success to execute, which appends lines
Returned(lines, seq_success) ==
    LET a == after_sequence(seq_success)
    IN  /\ success' = a.success
        /\ seqResult' = [seqResult EXCEPT
                           ![seqIdx] = IF seq_success THEN "True" ELSE "False"]
        /\ IF a.brk
           THEN /\ logs' = logs \o lines \o a.logs \o FlowFinished
                /\ pc' = "final_shot"
           ELSE /\ logs' = logs \o lines \o a.logs
                /\ pc' = "next_seq"

\* a loop that makes one attempt more than intents_number
has_attempt_once_more(seq, done) == done < seq.intents_number + 1

\* process_sequence, line 141: whether the loop has another attempt
has_attempt(seq, done) == done < seq.intents_number

\* an attempt that resumes at the step that failed in the attempt before
attempt_resumes(done, failed_at) == failed_at

\* an attempt that resumes after the step that failed in the attempt before
attempt_resumes_after(done, failed_at) == IF done = 0 THEN 0 ELSE failed_at + 1

\* process_sequence, line 144, and process_steps, line 48: every attempt
\* calls process_steps with the whole list, which iterates from its first
\* step, whatever the number of attempts done and the place of the failure
attempt_start(done, failed_at) == 0

\* process_sequence, lines 141-142 and 165-166
AttemptLoop ==
    /\ UNCHANGED << keyVars, runVars, shareVars, callVars >>
    /\ last' = NoLast
    /\ pc = "attempt"
    /\ LET seq == sequences[seqIdx]
       IN  IF has_attempt(seq, intent)
           THEN /\ intent' = intent + 1
                /\ stepIdx' = attempt_start(intent, stepIdx)
                /\ logs' = Append(logs, Line("INFO", "Attempt", <<>>))
                /\ pc' = "steps"
                /\ UNCHANGED << success, seqResult >>
           ELSE /\ Returned(<<Line("ERROR", "SEQUENCE FAILED", seq.title)>>, FALSE)
                /\ UNCHANGED << intent, stepIdx >>
    /\ ops' = <<>>
    /\ UNCHANGED << sequences, seqIdx, screenshot, engine, url, generated_files,
                    now, result, pending, response, faults, dispatched >>

(***************************************************************************)
(* process_sequence, line 144, one step of process_steps at a time; an     *)
(* exception process_steps raises is caught at lines 158-159.              *)
(***************************************************************************)
sequence_except(err) == <<Line("ERROR", "EXCEPTION", err)>>

ProcessStep ==
    /\ UNCHANGED << keyVars, runVars, shareVars, callVars >>
    /\ pc = "steps"
    /\ stepIdx < Len(sequences[seqIdx].steps)
    /\ LET step == sequences[seqIdx].steps[stepIdx + 1]
       IN  \E d \in Responses(step) :
             LET t == now + d.tick
                 r == process_step(step, d, t, url)
             IN  /\ r.err # <<>> => faults < MaxFaults
                 /\ d.tick > 0 => now < MaxClock
                 /\ faults' = IF r.err # <<>> THEN faults + 1 ELSE faults
                 /\ now' = t
                 /\ url' = r.url
                 /\ generated_files' = generated_files \o r.files
                 /\ ops' = r.ops
                 /\ last' = [seq |-> seqIdx, idx |-> stepIdx + 1, intent |-> intent,
                             raised |-> r.raised, err |-> r.err, d |-> d,
                             emitted |-> engine_logging(step, d)]
                 /\ dispatched' = [dispatched EXCEPT ![seqIdx] = @ + 1]
                 /\ IF r.raised
                    THEN /\ logs' = logs \o r.logs \o sequence_except(r.err)
                         /\ pc' = "retry"
                         /\ UNCHANGED stepIdx
                    ELSE /\ logs' = logs \o r.logs
                         /\ stepIdx' = stepIdx + 1
                         /\ UNCHANGED pc
    /\ UNCHANGED << sequences, seqIdx, intent, success, screenshot, engine, result,
                    pending, response, seqResult >>

(***************************************************************************)
(* process_sequence, lines 146-156: the steps of the attempt are done.     *)
(* found says whether wait_for_selector finds the target.                  *)
(***************************************************************************)
\* a check that takes the target as found whatever the wait gave
target_check_always_succeeds(seq, found) ==
    IF Truthy(seq.target_element)
    THEN [waited |-> TRUE, ok |-> TRUE,
          logs |-> <<Line("INFO", "Waiting for target", seq.target_element),
                     Line("INFO", "SUCCESS: Target found", seq.target_element)>>,
          ops |-> <<Op("wait_for_selector", seq.target_element, <<"target">>)>>]
    ELSE [waited |-> FALSE, ok |-> TRUE,
          logs |-> <<Line("INFO", "SUCCESS: Sequence completed (no target defined)",
                          <<>>)>>,
          ops |-> <<>>]

\* a check that waits for the target even when the sequence names none
target_check_always_waits(seq, found) ==
    [waited |-> TRUE, ok |-> found,
     logs |-> <<Line("INFO", "Waiting for target", seq.target_element)>>,
     ops |-> <<Op("wait_for_selector", seq.target_element, <<"target">>)>>]

target_check(seq, found) ==
    IF Truthy(seq.target_element)
    THEN [waited |-> TRUE, ok |-> found,
          logs |-> <<Line("INFO", "Waiting for target", seq.target_element)>>
                   \o IF found
                      THEN <<Line("INFO", "SUCCESS: Target found", seq.target_element)>>
                      ELSE <<Line("WARNING", "FAILURE: Target NOT found",
                                  seq.target_element)>>,
          ops |-> <<Op("wait_for_selector", seq.target_element, <<"target">>)>>]
    ELSE [waited |-> FALSE, ok |-> TRUE,
          logs |-> <<Line("INFO", "SUCCESS: Sequence completed (no target defined)",
                          <<>>)>>,
          ops |-> <<>>]

StepsDone ==
    /\ UNCHANGED << keyVars, runVars, shareVars, callVars >>
    /\ last' = NoLast
    /\ pc = "steps"
    /\ stepIdx = Len(sequences[seqIdx].steps)
    /\ \E found \in BOOLEAN :
         LET c == target_check(sequences[seqIdx], found)
             fault == Truthy(sequences[seqIdx].target_element) /\ ~found
         IN  /\ (~Truthy(sequences[seqIdx].target_element)) => found
             /\ fault => faults < MaxFaults
             /\ faults' = IF fault THEN faults + 1 ELSE faults
             /\ ops' = c.ops
             /\ IF c.ok
                THEN Returned(c.logs, TRUE)
                ELSE /\ logs' = logs \o c.logs
                     /\ pc' = "retry"
                     /\ UNCHANGED << success, seqResult >>
    /\ UNCHANGED << sequences, seqIdx, intent, stepIdx, screenshot, engine, url,
                    generated_files, now, result, pending, response, dispatched >>

\* a decision that pauses after the last attempt too
retry_decision_always_pauses(seq, done) ==
    [logs |-> <<Line("INFO", "Retrying", <<>>)>>,
     ops |-> <<Op("sleep", <<"2">>, <<>>)>>]

\* process_sequence, lines 161-163
retry_decision(seq, done) ==
    IF done < seq.intents_number
    THEN [logs |-> <<Line("INFO", "Retrying", <<>>)>>,
          ops |-> <<Op("sleep", <<"2">>, <<>>)>>]
    ELSE [logs |-> <<>>, ops |-> <<>>]

RetryDecision ==
    /\ UNCHANGED << keyVars, runVars, shareVars, callVars >>
    /\ last' = NoLast
    /\ pc = "retry"
    /\ logs' = logs \o retry_decision(sequences[seqIdx], intent).logs
    /\ ops' = retry_decision(sequences[seqIdx], intent).ops
    /\ pc' = "attempt"
    /\ UNCHANGED << sequences, seqIdx, intent, stepIdx, success, screenshot, engine,
                    url, generated_files, now, result, pending, response, faults,
                    dispatched, seqResult >>

(***************************************************************************)
(* execute, lines 197-214: the finally block.                              *)
(***************************************************************************)
ExecutionShot(t) == <<"execution", ToString(t)>>

\* a finally block that keeps the file name when the screenshot fails
final_screenshot_keeps_name(e, shot, t) ==
    IF e.page = "None"
    THEN [logs |-> <<Line("ERROR", "Failed to take screenshot", ENoneType)>>,
          screenshot |-> ExecutionShot(t), ops |-> <<>>]
    ELSE [logs |-> IF shot
                   THEN <<Line("INFO", "Screenshot saved", ExecutionShot(t))>>
                   ELSE <<Line("ERROR", "Failed to take screenshot", ETimeout)>>,
          screenshot |-> ExecutionShot(t),
          ops |-> <<Op("screenshot", ExecutionShot(t), <<>>)>>]

\* a finally block that passes over the screenshot when there is no page
final_screenshot_needs_page(e, shot, t) ==
    IF e.page = "None"
    THEN [logs |-> <<>>, screenshot |-> None, ops |-> <<>>]
    ELSE IF shot
    THEN [logs |-> <<Line("INFO", "Screenshot saved", ExecutionShot(t))>>,
          screenshot |-> ExecutionShot(t),
          ops |-> <<Op("screenshot", ExecutionShot(t), <<>>)>>]
    ELSE [logs |-> <<Line("ERROR", "Failed to take screenshot", ETimeout)>>,
          screenshot |-> None,
          ops |-> <<Op("screenshot", ExecutionShot(t), <<>>)>>]

\* lines 204-209; shot says whether page.screenshot succeeds
final_screenshot(e, shot, t) ==
    IF e.page = "None"
    THEN [logs |-> <<Line("ERROR", "Failed to take screenshot", ENoneType)>>,
          screenshot |-> None, ops |-> <<>>]
    ELSE IF shot
    THEN [logs |-> <<Line("INFO", "Screenshot saved", ExecutionShot(t))>>,
          screenshot |-> ExecutionShot(t),
          ops |-> <<Op("screenshot", ExecutionShot(t), <<>>)>>]
    ELSE [logs |-> <<Line("ERROR", "Failed to take screenshot", ETimeout)>>,
          screenshot |-> None,
          ops |-> <<Op("screenshot", ExecutionShot(t), <<>>)>>]

FinalScreenshot ==
    /\ UNCHANGED << keyVars, runVars, shareVars, callVars >>
    /\ last' = NoLast
    /\ pc = "final_shot"
    /\ \E shot \in BOOLEAN :
         LET f == final_screenshot(engine, shot, now)
             fault == engine.page # "None" /\ ~shot
         IN  /\ engine.page = "None" => shot
             /\ fault => faults < MaxFaults
             /\ faults' = IF fault THEN faults + 1 ELSE faults
             /\ logs' = logs \o f.logs
             /\ screenshot' = f.screenshot
             /\ ops' = f.ops
    /\ pc' = "stop"
    /\ UNCHANGED << sequences, seqIdx, intent, stepIdx, success, engine, url,
                    generated_files, now, result, pending, response, dispatched, seqResult >>

\* lines 211-214
stop_except(failed) ==
    IF failed THEN <<Line("WARNING", "Error stopping engine", ETimeout)>> ELSE <<>>

StopEngine ==
    /\ UNCHANGED << keyVars, runVars, shareVars, callVars >>
    /\ last' = NoLast
    /\ pc = "stop"
    /\ \E k \in 0..Len(StopCalls(engine)) :
         /\ k # 0 => faults < MaxFaults
         /\ faults' = IF k # 0 THEN faults + 1 ELSE faults
         /\ engine' = engine_stop(engine, k)
         /\ logs' = logs \o stop_except(k # 0)
         /\ ops' = [i \in 1..Len(Issued(StopCalls(engine), k)) |->
                       Op("close", <<Issued(StopCalls(engine), k)[i]>>, <<>>)]
    /\ pc' = "return"
    /\ UNCHANGED << sequences, seqIdx, intent, stepIdx, success, screenshot, url,
                    generated_files, now, result, pending, response, dispatched, seqResult >>

\* lines 216-220: execute returns its result, unless an exception is on its
\* way out
Return ==
    /\ UNCHANGED << keyVars, runVars, shareVars, callVars >>
    /\ last' = NoLast
    /\ pc = "return"
    /\ result' = IF pending = <<>>
                 THEN [returned |-> TRUE, success |-> success, logs |-> logs,
                       screenshot |-> screenshot]
                 ELSE result
    /\ pc' = "respond"
    /\ ops' = <<>>
    /\ UNCHANGED << sequences, seqIdx, intent, stepIdx, logs, success, screenshot,
                    engine, url, generated_files, now, pending, response, faults,
                    dispatched, seqResult >>

(***************************************************************************)
(* api.py, execute_sequence, lines 72-82.                                  *)
(***************************************************************************)
api_response(res, exc) ==
    IF exc = <<>>
    THEN res
    ELSE [returned |-> TRUE, success |-> FALSE,
          logs |-> <<Line("ERROR", "API CRITICAL ERROR", exc)>>,
          screenshot |-> None]

Respond ==
    /\ UNCHANGED << keyVars, runVars, shareVars, callVars >>
    /\ last' = NoLast
    /\ pc = "respond"
    /\ response' = api_response(result, pending)
    /\ pc' = "done"
    /\ ops' = <<>>
    /\ UNCHANGED << sequences, seqIdx, intent, stepIdx, logs, success, screenshot,
                    engine, url, generated_files, now, result, pending, faults,
                    dispatched, seqResult >>

(***************************************************************************)
(* The caller calls execute once more on the same executor, with the same  *)
(* request: lines 173-175 give the call its own logs, engine and success.  *)
(* The result of the call before stays with its caller; its "logs" is the  *)
(* list that self.logs named until now.                                    *)
(***************************************************************************)
\* a reset that empties the list in place
reset_logs_in_place(held) == <<>>

\* line 173, self.logs = []: what becomes of the list an earlier result holds
reset_logs(held) == held

NewCall ==
    /\ UNCHANGED << keyVars, runVars, shareVars >>
    /\ pc = "done"
    /\ call_no < MaxCalls
    /\ call_no' = call_no + 1
    /\ earlier' = [result EXCEPT !.logs = reset_logs(result.logs)]
    /\ logs' = <<>>
    /\ engine' = NoEngine
    /\ generated_files' = <<>>
    /\ url' = <<"about:blank">>
    /\ success' = TRUE
    /\ pc' = "start"
    /\ seqIdx' = 0
    /\ intent' = 0
    /\ stepIdx' = 0
    /\ screenshot' = None
    /\ result' = NoResult
    /\ pending' = <<>>
    /\ response' = NoResult
    /\ last' = NoLast
    /\ dispatched' = [i \in DOMAIN sequences |-> 0]
    /\ seqResult' = [i \in DOMAIN sequences |-> "none"]
    /\ ops' = <<>>
    /\ UNCHANGED << sequences, now, faults >>

Next ==
    \/ Start
    \/ NextSequence
    \/ AttemptLoop
    \/ ProcessStep
    \/ StepsDone
    \/ RetryDecision
    \/ FinalScreenshot
    \/ StopEngine
    \/ Return
    \/ Respond

Spec == Init /\ [][Next]_vars

SpecSteps == InitSteps /\ [][Next]_vars

\* the requests that are executed again: sequences of one mandatory click,
\* without a target, all with the same number of attempts
CallMissions ==
    { [i \in 1..n |-> Sequence(<<"s">>, it, None,
                               <<Step("click", <<"#go">>, None, 1, FALSE)>>)] :
        n \in 0..MaxSeqs, it \in 1..MaxIntents }

InitCalls == InitWith(CallMissions)

NextCalls == Next \/ NewCall

SpecCalls == InitCalls /\ [][NextCalls]_vars

\* the requests whose execution is followed to its end: sequences that share
\* a list of mandatory clicks, a target or none, and a number of attempts;
\* intents_number is any integer the request model accepts, negative too
LiveMissions ==
    UNION { { [i \in 1..n |-> Sequence(<<"s">>, it, tg, st)] :
                it \in (-1)..MaxIntents, tg \in Targets,
                st \in StepLists({Step("click", <<"#go">>, None, 1, FALSE)},
                                 MaxSteps) } : n \in 0..MaxSeqs }

InitLive == InitWith(LiveMissions)

\* execute is one coroutine that the event loop runs until it returns: every
\* await of it is a driver call or a sleep, which returns or raises
SpecLive == InitLive /\ [][Next]_vars /\ WF_vars(Next)

(***************************************************************************)
(* The key computation of dynamic_input on its own: every text of up to    *)
(* MaxRawLen characters is read from the page and normalised.              *)
(***************************************************************************)
Chars == {"0", "1", "7", " "}

Texts(n) == UNION { [1..k -> Chars] : k \in 0..n }

InitNorm ==
    /\ ExecIdle({<<>>})
    /\ EngineIdle
    /\ KeyIdle(Texts(MaxRawLen))
    /\ ResolveIdle({None})
    /\ RunIdle({<<>>})
    /\ ShareIdle({"none"})

\* sequence_executor.py lines 104-105
ComputeKey ==
    /\ key = None
    /\ key' = NormalizeKey(raw_text)
    /\ UNCHANGED << raw_text, step_data, resolved, execVars, runVars, shareVars, engine,
                    generated_files, now, faults, ops >>

NextNorm == ComputeKey

SpecNorm == InitNorm /\ [][NextNorm]_vars

(***************************************************************************)
(* resolve_data on its own: the data of a step is a text made of up to     *)
(* MaxParts parts, each the prefix "env:", the name of a variable that is  *)
(* set, the name of one that is not, or another character.                 *)
(***************************************************************************)
Parts == { EnvPrefix, <<"U">>, <<"V">>, <<" ">> }

RECURSIVE Concat(_)
Concat(ps) == IF ps = <<>> THEN <<>> ELSE Head(ps) \o Concat(Tail(ps))

DataValues == { Concat(ps) : ps \in UNION { [1..n -> Parts] : n \in 0..MaxParts } }

InitResolve ==
    /\ ExecIdle({<<>>})
    /\ EngineIdle
    /\ KeyIdle({<<>>})
    /\ ResolveIdle(DataValues \cup {None})
    /\ RunIdle({<<>>})
    /\ ShareIdle({"none"})

\* sequence_executor.py line 51
ResolveData ==
    /\ resolved = NotYet
    /\ resolved' = resolve_data(step_data)
    /\ UNCHANGED << step_data, raw_text, key, execVars, runVars, shareVars, engine,
                    generated_files, now, faults, ops >>

NextResolve == ResolveData

SpecResolve == InitResolve /\ [][NextResolve]_vars

(***************************************************************************)
(* SmartRetryLoop (automaton.py): a mission is a list of steps, a step a   *)
(* list of actions; the action that carries prompt_ia asks for the visual  *)
(* validation of the step, the last action's validation_settings give the  *)
(* number of polls.                                                        *)
(***************************************************************************)
max_retries == 3

stabilization == 2

cooldown == 5

polling_delay == 5

Action(action, optional, prompt_ia, polling_attempts) ==
    [action |-> action, optional |-> optional, prompt_ia |-> prompt_ia,
     polling_attempts |-> polling_attempts]

ClickActions ==
    { Action("click", FALSE, FALSE, 1) }
    \cup { Action("click", FALSE, TRUE, n) : n \in 1..MaxPolls }

CaptchaActions == { Action("solve_captcha", o, FALSE, 1) : o \in BOOLEAN }

\* the steps of the missions: a click, a captcha, or a captcha then a click
RunSteps ==
    { <<c>> : c \in ClickActions }
    \cup { <<a>> : a \in CaptchaActions }
    \cup { <<a, c>> : a \in CaptchaActions, c \in ClickActions }

\* a step that clicks and asks for one validation
LeadStep == <<Action("click", FALSE, TRUE, 1)>>

\* the missions: none to MaxRunSteps steps, of which only the last one varies
RunMissions ==
    { <<>> }
    \cup { [i \in 1..n |-> IF i < n THEN LeadStep ELSE s] :
             n \in 1..MaxRunSteps, s \in RunSteps }

InitRun ==
    /\ ExecIdle({<<>>})
    /\ EngineIdle
    /\ KeyIdle({<<>>})
    /\ ResolveIdle({None})
    /\ RunIdle(RunMissions)
    /\ ShareIdle({"none"})

\* what the collaborators may answer to one action of a step
ActionResponses(action) ==
    IF action.action = "solve_captcha"
    THEN { [NoResponse EXCEPT !.visible = TRUE] }
         \cup { [NoResponse EXCEPT !.visible = TRUE, !.shot = TRUE, !.proc = p,
                                   !.text = x] :
                  p \in BOOLEAN, x \in {<<>>, <<"Ab3d">>} }
         \cup { [NoResponse EXCEPT !.visible = TRUE, !.shot = TRUE, !.proc = TRUE,
                                   !.text = <<"Ab3d">>, !.fail = 2] }
    ELSE { [NoResponse EXCEPT !.fail = f] : f \in 0..1 }

\* PlaywrightEngine.execute_action, lines 222-298
execute_action(action, d, t) ==
    LET r == CASE action.action = "click" ->
                    Outcome(d.fail = 1, IF d.fail = 1 THEN ETimeout ELSE <<>>, <<>>,
                            <<Op("click", <<"element">>, <<>>)>>, <<>>, <<>>)
               [] action.action = "solve_captcha" ->
                    solve_captcha(<<"image_element">>, <<"input_element">>, d, t, <<>>)
               [] OTHER -> Outcome(FALSE, <<>>, <<>>, <<>>, <<>>, <<>>)
    IN  IF r.raised /\ action.optional
        THEN [r EXCEPT !.raised = FALSE]
        ELSE r

\* run, line 355: the first prompt_ia among the step's actions
validation_prompt(step_actions) ==
    \E i \in DOMAIN step_actions : step_actions[i].prompt_ia

\* a budget of one poll more than the settings give
max_val_attempts_one_more(actions) ==
    actions[Len(actions)].polling_attempts + 1

\* run, lines 359-362
max_val_attempts(step_actions) ==
    step_actions[Len(step_actions)].polling_attempts

ValShot(step, attempt, poll) == File("val", step, attempt, poll)

Range(f) == { f[i] : i \in DOMAIN f }

\* a cleanup that does not look at the outcome of the mission
cleanup_whatever_outcome(all_files, ok, existing) ==
    IF all_files # <<>>
    THEN { f \in Range(all_files) : f # all_files[Len(all_files)] /\ f \in existing }
    ELSE {}

\* run, lines 410-425: the files the cleanup removes
cleanup(all_files, ok, existing) ==
    IF ok = "True" /\ all_files # <<>>
    THEN LET last_file == all_files[Len(all_files)]
         IN  { f \in Range(all_files) : f # last_file /\ f \in existing }
    ELSE {}

(***************************************************************************)
(* SmartRetryLoop.run, lines 330-427.  The time of the run advances with   *)
(* its sleeps; a captcha file carries the second it was taken in.          *)
(***************************************************************************)
step_actions == mission_steps[step_index]

RunSleep(what) == Op("sleep", <<what>>, <<>>)

\* a cooldown slept after the last attempt as well
cooldown_sleeps_every_attempt(n) == <<RunSleep("5")>>

\* the pause before another attempt, lines 390-392 and 399-400
cooldown_sleeps(n) == IF n < max_retries THEN <<RunSleep("5")>> ELSE <<>>

\* the except handler of the attempt, lines 397-400
attempt_except(n) == Len(cooldown_sleeps(n)) * cooldown

\* lines 331-332: the mission is loaded and the engine started, before the try
RunStart ==
    /\ UNCHANGED << execVars, keyVars, shareVars >>
    /\ rpc = "start"
    /\ \E k \in 0..5 :
         /\ k # 0 => faults < MaxRunFaults
         /\ engine' = engine_start(k)
         /\ faults' = IF k # 0 THEN faults + 1 ELSE faults
         /\ rpc' = IF k = 0 THEN "for" ELSE "raised"
    /\ ops' = <<Op("start", <<>>, <<>>)>>
    /\ UNCHANGED << mission_steps, step_index, attempts, action_index, val_attempt,
                    run_success, val_files, disk, created, removed,
                    generated_files, now >>

\* lines 335-339 and 402-404: the next step of the mission, if any
ForStep ==
    /\ UNCHANGED << execVars, keyVars, shareVars >>
    /\ rpc = "for"
    /\ IF step_index < Len(mission_steps)
       THEN /\ step_index' = step_index + 1
            /\ run_success' = "False"
            /\ attempts' = 0
            /\ rpc' = "while"
       ELSE /\ rpc' = "finally"
            /\ UNCHANGED << step_index, run_success, attempts >>
    /\ ops' = <<>>
    /\ UNCHANGED << mission_steps, action_index, val_attempt, val_files, disk,
                    created, removed, engine, generated_files, now, faults >>

\* lines 341-343 and 402-404: one more attempt, or the end of the step
WhileAttempt ==
    /\ UNCHANGED << execVars, keyVars, shareVars >>
    /\ rpc = "while"
    /\ IF run_success = "False" /\ attempts < max_retries
       THEN /\ attempts' = attempts + 1
            /\ action_index' = 0
            /\ rpc' = "actions"
       ELSE /\ rpc' = IF run_success = "False" THEN "finally" ELSE "for"
            /\ UNCHANGED << attempts, action_index >>
    /\ ops' = <<>>
    /\ UNCHANGED << mission_steps, step_index, val_attempt, run_success, val_files,
                    disk, created, removed, engine, generated_files, now, faults >>

\* lines 347-348: one action of the step; an error it raises ends the
\* attempt in the handler of lines 397-400
RunAction ==
    /\ UNCHANGED << execVars, keyVars, shareVars >>
    /\ rpc = "actions"
    /\ action_index < Len(step_actions)
    /\ \E d \in ActionResponses(step_actions[action_index + 1]) :
         LET r == execute_action(step_actions[action_index + 1], d, now)
         IN  /\ r.err # <<>> => faults < MaxRunFaults
             /\ faults' = IF r.err # <<>> THEN faults + 1 ELSE faults
             /\ ops' = IF r.raised THEN r.ops \o cooldown_sleeps(attempts) ELSE r.ops
             /\ generated_files' = generated_files \o r.files
             /\ created' = created \o r.files
             /\ disk' = disk \cup Range(r.files)
             /\ IF r.raised
                THEN /\ now' = now + attempt_except(attempts)
                     /\ rpc' = "while"
                     /\ UNCHANGED action_index
                ELSE /\ action_index' = action_index + 1
                     /\ UNCHANGED << now, rpc >>
    /\ UNCHANGED << mission_steps, step_index, attempts, val_attempt, run_success,
                    val_files, removed, engine >>

\* lines 350-355 and 393-395: the pause after the actions, then the
\* validation if an action asks for it, else the step has succeeded
Stabilize ==
    /\ UNCHANGED << execVars, keyVars, shareVars >>
    /\ rpc = "actions"
    /\ action_index = Len(step_actions)
    /\ now' = now + stabilization
    /\ IF validation_prompt(step_actions)
       THEN /\ val_attempt' = 0
            /\ rpc' = "poll"
            /\ UNCHANGED run_success
       ELSE /\ run_success' = "True"
            /\ rpc' = "while"
            /\ UNCHANGED val_attempt
    /\ ops' = <<RunSleep("2")>>
    /\ UNCHANGED << mission_steps, step_index, attempts, action_index, val_files,
                    disk, created, removed, engine, generated_files, faults >>

\* what one poll may meet: the page screenshot raises, or it is written and
\* the oracle's model passes it, fails it, or the call to it errors
PollResponses ==
    { [shot |-> FALSE, verdict |-> "none"] }
    \cup { [shot |-> TRUE, verdict |-> v] : v \in {"passed", "failed", "error"} }

\* an oracle that lets the error of its call go up to the caller
oracle_validate_raises(answer) ==
    [raised |-> answer = "error", passed |-> answer = "passed"]

\* Oracle.validate, lines 54-102: the handler at lines 100-102 turns an error
\* of the call into a verdict that did not pass
oracle_validate(answer) == [raised |-> FALSE, passed |-> answer = "passed"]

\* lines 366-374: from the second poll on the delay is slept, and slept again
poll_sleeps(n) ==
    IF n > 1 THEN <<RunSleep("polling_delay"), RunSleep("polling_delay")>> ELSE <<>>

poll_wait(n) == Len(poll_sleeps(n)) * polling_delay

\* lines 366-388: one turn of the polling loop
Poll ==
    /\ UNCHANGED << execVars, keyVars, shareVars >>
    /\ rpc = "poll"
    /\ val_attempt < max_val_attempts(step_actions)
    /\ run_success = "False"
    /\ val_attempt' = val_attempt + 1
    /\ \E d \in PollResponses :
         LET screenshot_path == ValShot(step_index - 1, attempts, val_attempt + 1)
             verdict == oracle_validate(d.verdict)
             shotOp == Op("screenshot", <<>>, <<>>)
             validateOp == Op("validate", <<d.verdict>>, <<>>)
         IN  /\ d.verdict # "passed" => faults < MaxRunFaults
             /\ faults' = IF d.verdict # "passed" THEN faults + 1 ELSE faults
             /\ now' = now + poll_wait(val_attempt + 1)
                           + IF d.shot /\ ~verdict.raised THEN 0
                             ELSE attempt_except(attempts)
             /\ IF d.shot
                THEN /\ val_files' = Append(val_files, screenshot_path)
                     /\ created' = Append(created, screenshot_path)
                     /\ disk' = disk \cup {screenshot_path}
                ELSE UNCHANGED << val_files, created, disk >>
             /\ IF d.shot /\ ~verdict.raised
                THEN /\ run_success' = IF verdict.passed THEN "True" ELSE "False"
                     /\ ops' = poll_sleeps(val_attempt + 1) \o <<shotOp, validateOp>>
                     /\ UNCHANGED rpc
                ELSE /\ rpc' = "while"
                     /\ ops' = poll_sleeps(val_attempt + 1)
                               \o (IF d.shot THEN <<shotOp, validateOp>>
                                   ELSE <<shotOp>>)
                               \o cooldown_sleeps(attempts)
                     /\ UNCHANGED run_success
    /\ UNCHANGED << mission_steps, step_index, attempts, action_index, removed,
                    engine, generated_files >>

\* lines 365 and 390-392: the polling loop is over; a failed attempt that
\* is not the last waits before the next one
PollExit ==
    /\ UNCHANGED << execVars, keyVars, shareVars >>
    /\ rpc = "poll"
    /\ ~(val_attempt < max_val_attempts(step_actions) /\ run_success = "False")
    /\ now' = IF run_success = "False" /\ attempts < max_retries
              THEN now + cooldown ELSE now
    /\ rpc' = "while"
    /\ ops' = IF run_success = "False" THEN cooldown_sleeps(attempts) ELSE <<>>
    /\ UNCHANGED << mission_steps, step_index, attempts, action_index, val_attempt,
                    run_success, val_files, disk, created, removed, engine,
                    generated_files, faults >>

\* lines 406-407: the engine is stopped; an error of stop leaves run
RunStop ==
    /\ UNCHANGED << execVars, keyVars, shareVars >>
    /\ rpc = "finally"
    /\ \E k \in 0..Len(StopCalls(engine)) :
         /\ k # 0 => faults < MaxRunFaults
         /\ faults' = IF k # 0 THEN faults + 1 ELSE faults
         /\ engine' = engine_stop(engine, k)
         /\ ops' = [i \in 1..Len(Issued(StopCalls(engine), k)) |->
                       Op("close", <<Issued(StopCalls(engine), k)[i]>>, <<>>)]
         /\ rpc' = IF k = 0 THEN "cleanup" ELSE "raised"
    /\ UNCHANGED << mission_steps, step_index, attempts, action_index, val_attempt,
                    run_success, val_files, disk, created, removed,
                    generated_files, now >>

\* lines 409-427: the cleanup; success was never bound if the mission has
\* no step, and reading it raises
Cleanup ==
    /\ UNCHANGED << execVars, keyVars, shareVars >>
    /\ rpc = "cleanup"
    /\ IF run_success = "unbound"
       THEN /\ rpc' = "raised"
            /\ UNCHANGED << removed, disk >>
       ELSE /\ removed' = cleanup(generated_files \o val_files, run_success, disk)
            /\ disk' = disk \ removed'
            /\ rpc' = "done"
    /\ ops' = <<>>
    /\ UNCHANGED << mission_steps, step_index, attempts, action_index, val_attempt,
                    run_success, val_files, created, engine, generated_files,
                    now, faults >>

NextRun ==
    \/ RunStart
    \/ ForStep
    \/ WhileAttempt
    \/ RunAction
    \/ Stabilize
    \/ Poll
    \/ PollExit
    \/ RunStop
    \/ Cleanup

SpecRetry == InitRun /\ [][NextRun]_vars

(***************************************************************************)
(* Two missions in one process (two requests of the API, two retry loops): *)
(* the event loop interleaves them at their awaits, they read the same     *)
(* clock and write to the same directory, "screenshots".  A mission of     *)
(* kind "execute" is SequenceExecutor.execute, one of kind "run" is        *)
(* SmartRetryLoop.run; each makes up to MaxSteps steps that write files,   *)
(* then its last write: the final screenshot, or the cleanup of a success. *)
(***************************************************************************)
InitShared ==
    /\ ExecIdle({<<>>})
    /\ EngineIdle
    /\ KeyIdle({<<>>})
    /\ ResolveIdle({None})
    /\ RunIdle({<<>>})
    /\ ShareIdle({"execute", "run"})

\* sequence_executor.py lines 199-202: the name holds the time and a uuid4,
\* which no two calls share
SharedShot(t, id) == File("execution", t, id, 0)

\* a solve_captcha action of mission m, the resolver answering
SharedCaptcha(m) ==
    /\ concurrent[m].at = "running"
    /\ concurrent[m].steps < MaxSteps
    /\ \E p \in BOOLEAN :
         LET d == [NoResponse EXCEPT !.visible = TRUE, !.shot = TRUE, !.proc = p,
                                     !.text = <<"Ab3d">>]
             r == solve_captcha(<<"#img">>, <<"#code">>, d, wall, <<>>)
         IN  /\ concurrent' = [concurrent EXCEPT
                                 ![m].steps = @ + 1,
                                 ![m].engine_files = @ \o r.files]
             /\ shared_disk' = shared_disk \cup Range(r.files)
    /\ UNCHANGED << wall, execVars, keyVars, runVars, engine, generated_files, now,
                    faults, ops >>

\* automaton.py lines 376-380: the first poll of the first attempt of the
\* next step of a retry loop
SharedValidation(m) ==
    /\ concurrent[m].kind = "run"
    /\ concurrent[m].at = "running"
    /\ concurrent[m].steps < MaxSteps
    /\ LET screenshot_path == ValShot(concurrent[m].steps, 1, 1)
       IN  /\ concurrent' = [concurrent EXCEPT
                               ![m].steps = @ + 1,
                               ![m].val_files = Append(@, screenshot_path)]
           /\ shared_disk' = shared_disk \cup {screenshot_path}
    /\ UNCHANGED << wall, execVars, keyVars, runVars, engine, generated_files, now,
                    faults, ops >>

\* the end of mission m: execute takes its final screenshot; run, which has
\* succeeded, cleans up (automaton.py lines 410-425)
SharedFinish(m) ==
    /\ concurrent[m].at = "running"
    /\ IF concurrent[m].kind = "execute"
       THEN /\ concurrent' = [concurrent EXCEPT
                                ![m].at = "done",
                                ![m].shots = Append(@, SharedShot(wall, m))]
            /\ shared_disk' = shared_disk \cup {SharedShot(wall, m)}
       ELSE LET gone == cleanup(concurrent[m].engine_files \o concurrent[m].val_files,
                                "True", shared_disk)
            IN  /\ concurrent' = [concurrent EXCEPT ![m].at = "done",
                                                    ![m].removed = gone]
                /\ shared_disk' = shared_disk \ gone
    /\ UNCHANGED << wall, execVars, keyVars, runVars, engine, generated_files, now,
                    faults, ops >>

\* a second goes by while a mission is running
SharedTick ==
    /\ \E m \in DOMAIN concurrent : concurrent[m].at = "running"
    /\ wall < MaxClock
    /\ wall' = wall + 1
    /\ UNCHANGED << concurrent, shared_disk, execVars, keyVars, runVars, engine,
                    generated_files, now, faults, ops >>

NextShared ==
    \/ \E m \in DOMAIN concurrent : SharedCaptcha(m)
    \/ \E m \in DOMAIN concurrent : SharedValidation(m)
    \/ \E m \in DOMAIN concurrent : SharedFinish(m)
    \/ SharedTick

SpecShared == InitShared /\ [][NextShared]_vars

(***************************************************************************)
(* Helpers of the properties.                                              *)
(***************************************************************************)
FinalPcs == {"final_shot", "stop", "return", "respond", "done"}

HasLine(ls, level, text) ==
    \E i \in DOMAIN ls : ls[i].level = level /\ ls[i].text = text

HasOp(os, name) == \E i \in DOMAIN os : os[i].op = name

\* the step the last action ran, when it ran one
LastStep == sequences[last.seq].steps[last.idx]

\* the lines the last step appended: those from its "Executing Step" line on
LastStepLines ==
    LET starts == { i \in DOMAIN logs : logs[i].text = "Executing Step" }
        from == CHOOSE i \in starts : \A j \in starts : j <= i
    IN  SubSeq(logs, from, Len(logs))

(***************************************************************************)
(* C1: a sequence that has used all its attempts without success returns   *)
(* False: every sequence the loop has left has returned True or False, and *)
(* once one returned False the mission's success is false, the logs are    *)
(* not empty, no later sequence is started and no step of a later sequence *)
(* is dispatched; the result execute returns says so.                      *)
(***************************************************************************)
C1_ExhaustionAborts ==
    \A i \in DOMAIN sequences :
      /\ (i < seqIdx \/ (i = seqIdx /\ pc \in FinalPcs)) => seqResult[i] # "none"
      /\ seqResult[i] = "False" =>
           /\ intent = sequences[i].intents_number \/ sequences[i].intents_number <= 0
           /\ success = FALSE
           /\ logs # <<>>
           /\ seqIdx = i
           /\ pc \in FinalPcs
           /\ \A j \in DOMAIN sequences : j > i => dispatched[j] = 0
           /\ result.returned => (result.success = FALSE /\ result.logs # <<>>)

\* the spec's scenario: two sequences, the first exhausts 2/2 attempts
C1_Witness ==
    /\ Len(sequences) = 2
    /\ sequences[1].intents_number = 2
    /\ sequences[1].steps # <<>>
    /\ sequences[2].steps # <<>>
    /\ seqResult[1] = "False"
    /\ dispatched[1] > 0
    /\ result.returned

(***************************************************************************)
(* C2: no exception leaves execute: when it is over there is no exception  *)
(* in flight and it has returned one result, with a boolean success, the   *)
(* logs and a screenshot name or None, which it never changes afterwards;  *)
(* a failure of start (the error no step or sequence absorbs) gives        *)
(* success = false and a log line carrying the error text; the endpoint    *)
(* answers with that same result.                                          *)
(***************************************************************************)
C2_Returned ==
    /\ pc \in {"respond", "done"} =>
         /\ pending = <<>>
         /\ result.returned
         /\ result.success \in BOOLEAN
         /\ result.success = success
         /\ result.logs = logs
         /\ result.screenshot \in {None, ExecutionShot(now)}
    /\ (pc # "start" /\ engine.page = "None") =>
         /\ success = FALSE
         /\ \E i \in DOMAIN logs :
              logs[i] = Line("ERROR", "CRITICAL UNHANDLED ERROR", ETimeout)
    /\ pc = "done" => (response.returned /\ response = result)

C2_NoFault == [] C2_Returned /\ [][result.returned => result' = result]_vars

\* start failed after acquiring a resource, and stop failed too
C2_Witness ==
    /\ pc = "done"
    /\ engine.page = "None"
    /\ engine.playwright = "open"
    /\ response.success = FALSE
    /\ HasLine(response.logs, "WARNING", "Error stopping engine")

(***************************************************************************)
(* C3 as claimed: a dynamic_input step whose key is not in the coordinate  *)
(* table raises to the runner whether or not it is optional: the attempt   *)
(* goes to the retry decision and no later step is run.                    *)
(***************************************************************************)
LookupMiss ==
    /\ last.seq # 0
    /\ LastStep.action = "dynamic_input"
    /\ last.d.fail \notin {1, 2}
    /\ ~Truthy(CoordinatesGet(NormalizeKey(last.d.raw)))

C3_MissAlwaysRaises ==
    LookupMiss => (last.raised /\ pc = "retry")

(***************************************************************************)
(* C4: when an optional step fails, the attempt goes on with the next step *)
(* (process_steps is still in the same attempt, past the step), and the    *)
(* step appended no ERROR line: its last line is the warning.              *)
(***************************************************************************)
OptionalFailed ==
    /\ last.seq # 0
    /\ LastStep.optional
    /\ last.err # <<>>

C4_OptionalAbsorbed ==
    OptionalFailed =>
      /\ ~last.raised
      /\ pc = "steps"
      /\ seqIdx = last.seq
      /\ intent = last.intent
      /\ stepIdx = last.idx
      /\ \A i \in DOMAIN LastStepLines : LastStepLines[i].level # "ERROR"
      /\ logs[Len(logs)] =
           Line("INFO", "Optional step failed/skipped. Continuing", last.err)

\* an optional step failed at a driver call and the next step was run
C4_Witness ==
    /\ last.seq # 0
    /\ last.idx = 2
    /\ sequences[1].steps[1].optional
    /\ sequences[1].steps[1].action = "input"
    /\ HasLine(logs, "INFO", "Optional step failed/skipped. Continuing")

(***************************************************************************)
(* C7: a sequence without a target never waits for one, reaches the retry  *)
(* decision only through a step that raised, and returns True from the     *)
(* attempt whose steps completed.                                          *)
(***************************************************************************)
NoTarget == seqIdx # 0 /\ ~Truthy(sequences[seqIdx].target_element)

C7_Step ==
    /\ (NoTarget /\ pc = "steps" /\ stepIdx = Len(sequences[seqIdx].steps)) =>
         /\ seqResult'[seqIdx] = "True"
         /\ pc' = "next_seq"
         /\ intent' = intent
    /\ NoTarget' =>
         /\ ~ \E i \in DOMAIN ops' :
                ops'[i].op = "wait_for_selector" /\ ops'[i].b = <<"target">>
         /\ pc' = "retry" => (last'.seq = seqIdx' /\ last'.raised)

C7_NoTargetSuccess == [][C7_Step]_vars

\* the first attempt raised, the second completed its steps and returned True
C7_Witness ==
    /\ NoTarget
    /\ pc = "next_seq"
    /\ intent = 2
    /\ sequences[seqIdx].steps # <<>>
    /\ seqResult[seqIdx] = "True"

(***************************************************************************)
(* C9: a captcha step whose image is not visible calls neither the element *)
(* screenshot nor the resolver, generates no artifact, logs the skip and   *)
(* completes: process_steps goes on past it.                               *)
(***************************************************************************)
CaptchaNotVisible ==
    /\ last.seq # 0
    /\ LastStep.action = "captcha"
    /\ last.d.fail # 1
    /\ ~last.d.visible

C9_InvisibleCaptchaSkipped ==
    CaptchaNotVisible =>
      /\ ~HasOp(ops, "solve_image")
      /\ ~HasOp(ops, "screenshot_element")
      /\ ~HasOp(ops, "fill")
      /\ generated_files = <<>>
      /\ HasLine(LastStepLines, "INFO", "Captcha NOT detected. Skipping step")
      /\ ~last.raised
      /\ last.err = <<>>
      /\ pc = "steps"
      /\ stepIdx = last.idx

C9_Witness ==
    /\ CaptchaNotVisible
    /\ ~LastStep.optional
    /\ HasOp(ops, "is_visible")

(***************************************************************************)
(* C10 as claimed: when the resolver returns nothing for a visible captcha *)
(* the attempt fails, whether or not the step is optional: the step raises *)
(* and the runner is at its retry decision.                                *)
(***************************************************************************)
CaptchaUnsolved ==
    /\ last.seq # 0
    /\ LastStep.action = "captcha"
    /\ last.d.fail # 1
    /\ last.d.visible
    /\ last.d.shot
    /\ last.d.text = <<>>

C10_UnsolvedAlwaysFails ==
    CaptchaUnsolved => (last.raised /\ pc = "retry" /\ HasOp(ops, "solve_image"))

(***************************************************************************)
(* C8 as claimed: a raw text of exactly two characters beginning with "0"  *)
(* gives the text with exactly one leading zero removed (trimmed like any  *)
(* other key); every other raw text gives the text trimmed of surrounding  *)
(* whitespace and otherwise unchanged.                                     *)
(***************************************************************************)
ClaimedKey(raw) ==
    IF Len(raw) = 2 /\ raw[1] = "0" THEN Strip(Tail(raw)) ELSE Strip(raw)

C8_KeyNormalization ==
    key # None => key = ClaimedKey(raw_text)


\* C5: after a successful run that generated files, the only generated file
\* still on disk is the one created last in time
RunSucceeded == rpc = "done" /\ run_success = "True" /\ created # <<>>

C5_LastCreatedSurvives ==
    RunSucceeded => Range(created) \cap disk = {created[Len(created)]}

\* C6: after a failed run the cleanup has removed no generated file: all of
\* them are still on disk
RunFailed == rpc = "done" /\ run_success = "False"

C6_FailureKeepsAll == RunFailed => removed = {} /\ Range(created) \subseteq disk

C6_Witness == RunFailed /\ Cardinality(Range(created)) >= 2


(***************************************************************************)
(* C11: on every path through execute the final screenshot is attempted    *)
(* exactly once: before the finally block no attempt has left a line and   *)
(* no resource is closed; from the attempt on the logs hold exactly one    *)
(* line of it; when the engine is about to be stopped that line is the     *)
(* last one, after every line of the sequences, and nothing is closed yet. *)
(***************************************************************************)
ShotTexts == {"Screenshot saved", "Failed to take screenshot"}

ShotLines(ls) == { i \in DOMAIN ls : ls[i].text \in ShotTexts }

NothingClosed == \A f \in DOMAIN engine : engine[f] # "closed"

C11_OneFinalShot ==
    /\ pc \in {"start", "next_seq", "attempt", "steps", "retry", "final_shot"} =>
         (ShotLines(logs) = {} /\ NothingClosed)
    /\ pc \in {"stop", "return", "respond", "done"} =>
         Cardinality(ShotLines(logs)) = 1
    /\ pc = "stop" => (ShotLines(logs) = {Len(logs)} /\ NothingClosed)
    /\ result.returned => Cardinality(ShotLines(result.logs)) = 1

\* start failed: execute has returned, having attempted the screenshot of
\* a page that was never made
C11_Witness ==
    /\ result.returned
    /\ engine.page = "None"
    /\ HasLine(result.logs, "ERROR", "Failed to take screenshot")


(***************************************************************************)
(* C12: when execute has returned, every resource that start acquired      *)
(* (the context, the browser, the Playwright runtime) has been closed.     *)
(***************************************************************************)
Resources == {"context", "browser", "playwright"}

C12_AllReleased ==
    result.returned => \A f \in Resources : engine[f] # "open"


(***************************************************************************)
(* C13: a failure in the finally block of execute does not change the      *)
(* outcome.  The screenshot step keeps success and raises nothing, and     *)
(* leaves the screenshot name None exactly when the screenshot failed (no  *)
(* page, or page.screenshot raised); the stop step keeps success and the   *)
(* screenshot name, raises nothing, and when a close call raised the last  *)
(* line logged is the WARNING.  The result returned carries that success   *)
(* and that name.                                                          *)
(***************************************************************************)
C13_Step ==
    /\ pc = "final_shot" =>
         /\ success' = success
         /\ pending' = pending
         /\ (screenshot' = None) <=> (engine.page = "None" \/ faults' # faults)
    /\ pc = "stop" =>
         /\ success' = success
         /\ pending' = pending
         /\ screenshot' = screenshot
         /\ faults' # faults =>
              logs' = Append(logs, Line("WARNING", "Error stopping engine", ETimeout))
         /\ faults' = faults => logs' = logs

C13_Result ==
    result.returned =>
      /\ pending = <<>>
      /\ result.success = success
      /\ (result.screenshot = None) <=>
           HasLine(result.logs, "ERROR", "Failed to take screenshot")

C13_FinalizationKeepsOutcome == [] C13_Result /\ [][C13_Step]_vars

\* every sequence succeeded, then the screenshot and the stop both failed
C13_Witness ==
    /\ result.returned
    /\ sequences # <<>>
    /\ result.success
    /\ result.screenshot = None
    /\ HasLine(result.logs, "WARNING", "Error stopping engine")


(***************************************************************************)
(* C14: resolve_data gives, for a text "env:NAME", the value of the        *)
(* environment variable NAME, the empty text when NAME is not set; any     *)
(* other data is returned as it is.                                        *)
(***************************************************************************)
ClaimedValue(d) ==
    IF d # None /\ StartsWith(d, EnvPrefix)
    THEN Getenv(SubSeq(d, Len(EnvPrefix) + 1, Len(d)), <<>>)
    ELSE d

C14_Resolution == resolved # NotYet => resolved = ClaimedValue(step_data)


(***************************************************************************)
(* C15: the logs of execute hold every line that a component emitted       *)
(* during the run, the engine layer included: every line the engine layer  *)
(* emitted during the last step is a line of the logs.                     *)
(***************************************************************************)
C15_EveryLineCollected ==
    \A i \in DOMAIN last.emitted :
      \E j \in DOMAIN logs : logs[j] = last.emitted[i]


(***************************************************************************)
(* C16: of two missions that run in one process and share the directory,   *)
(* no file is written by both, and the cleanup of one removes no file the  *)
(* other has written.                                                      *)
(***************************************************************************)
Written(m) ==
    Range(concurrent[m].engine_files) \cup Range(concurrent[m].val_files)
    \cup Range(concurrent[m].shots)

C16_NoSharedPath ==
    /\ Written(1) \cap Written(2) = {}
    /\ concurrent[1].removed \cap Written(2) = {}
    /\ concurrent[2].removed \cap Written(1) = {}


(***************************************************************************)
(* C17: a call of execute starts with success true and empty logs; once    *)
(* success is false it stays false for the rest of the call, and no        *)
(* attempt, sequence or step is started any more; the call ends with one   *)
(* result, succeeded or failed.  A later call starts afresh (empty logs,   *)
(* success true, no sequence begun, a new engine), and the result of the   *)
(* call before stays as it was returned.                                   *)
(***************************************************************************)
C17_Step ==
    /\ (pc # "done" /\ ~success) =>
         /\ ~success'
         /\ seqIdx' = seqIdx
         /\ intent' = intent
         /\ dispatched' = dispatched
    /\ (pc = "done" /\ pc' = "start") =>
         /\ logs' = <<>>
         /\ success'
         /\ seqIdx' = 0
         /\ engine' = NoEngine
         /\ earlier' = result
    /\ (pc # "done" /\ earlier.returned) => earlier' = earlier

C17_State ==
    /\ pc = "start" => (success /\ logs = <<>>)
    /\ pc = "done" => (result.returned /\ result.success \in BOOLEAN)

C17_MissionStates == [] C17_State /\ [][C17_Step]_vars

\* the first call failed at its first sequence; the second call, of the same
\* two sequences, succeeded
C17_Witness ==
    /\ call_no = 2
    /\ pc = "done"
    /\ Len(sequences) = 2
    /\ earlier.returned
    /\ ~earlier.success
    /\ result.success


(***************************************************************************)
(* C18: when a mandatory step of an attempt has failed, the attempt is     *)
(* over: the runner is at the retry decision, the steps after the failed   *)
(* one have not been run, and the decision is taken without dispatching a  *)
(* step and without waiting for the target.                                *)
(***************************************************************************)
MandatoryFailed == last.idx # 0 /\ last.err # <<>> /\ ~LastStep.optional

TargetWaited(os) ==
    \E i \in DOMAIN os : os[i].op = "wait_for_selector" /\ os[i].b = <<"target">>

C18_State ==
    MandatoryFailed =>
      /\ last.raised
      /\ pc = "retry"
      /\ stepIdx = last.idx - 1
      /\ ~TargetWaited(ops)

C18_Step ==
    pc = "retry" =>
      /\ pc' = "attempt"
      /\ dispatched' = dispatched
      /\ stepIdx' = stepIdx
      /\ ~TargetWaited(ops')

C18_FailureEndsAttempt == [] C18_State /\ [][C18_Step]_vars

\* the first of two steps failed, in a sequence that has a target
C18_Witness ==
    /\ MandatoryFailed
    /\ last.idx < Len(sequences[last.seq].steps)
    /\ Truthy(sequences[last.seq].target_element)


(***************************************************************************)
(* C19: in a sequence with a target, when the steps of an attempt are done *)
(* the target is awaited once.  Found: process_sequence returns True at    *)
(* once, with no other attempt and no pause.  Not found: the runner goes   *)
(* to the retry decision, pauses and makes another attempt if one is left, *)
(* and returns False only when none is.                                    *)
(***************************************************************************)
HasTarget == seqIdx # 0 /\ Truthy(sequences[seqIdx].target_element)

C19_Step ==
    /\ (HasTarget /\ pc = "steps" /\ stepIdx = Len(sequences[seqIdx].steps)) =>
         /\ Len(ops') = 1
         /\ TargetWaited(ops')
         /\ intent' = intent
         /\ IF faults' = faults
            THEN /\ seqResult'[seqIdx] = "True"
                 /\ pc' = "next_seq"
            ELSE /\ seqResult' = seqResult
                 /\ pc' = "retry"
    /\ (HasTarget /\ pc = "retry") =>
         /\ pc' = "attempt"
         /\ seqResult' = seqResult
         /\ HasOp(ops', "sleep") <=> intent < sequences[seqIdx].intents_number
    /\ (HasTarget /\ pc = "attempt") =>
         IF intent < sequences[seqIdx].intents_number
         THEN /\ intent' = intent + 1
              /\ pc' = "steps"
              /\ seqResult' = seqResult
         ELSE /\ seqResult'[seqIdx] = "False"
              /\ intent' = intent

C19_TargetDecides == [][C19_Step]_vars

\* the target was not found and an attempt is left
C19_Witness ==
    /\ HasTarget
    /\ pc = "retry"
    /\ last = NoLast
    /\ intent < sequences[seqIdx].intents_number
    /\ logs[Len(logs)] = Line("WARNING", "FAILURE: Target NOT found",
                              sequences[seqIdx].target_element)


(***************************************************************************)
(* C20: the attempts made of a sequence never exceed its intents_number,   *)
(* and when process_sequence has returned False it has made exactly        *)
(* intents_number attempts, which is at least one.                         *)
(***************************************************************************)
C20_FalseAfterAllAttempts ==
    /\ seqIdx # 0 => intent <= sequences[seqIdx].intents_number
    /\ \A i \in DOMAIN sequences :
         seqResult[i] = "False" =>
           /\ sequences[i].intents_number >= 1
           /\ i = seqIdx
           /\ intent = sequences[i].intents_number


(***************************************************************************)
(* C21: the cooldown of process_sequence is slept at the retry decision of *)
(* a failed attempt that is not the last, and nowhere else: an attempt     *)
(* after the first starts right after a cooldown, and neither the return   *)
(* of True nor the return of False comes with or right after one.          *)
(***************************************************************************)
Cooldown(os) == \E i \in DOMAIN os : os[i] = Op("sleep", <<"2">>, <<>>)

C21_Step ==
    /\ pc = "retry" =>
         (Cooldown(ops') <=> intent < sequences[seqIdx].intents_number)
    /\ pc # "retry" => ~Cooldown(ops')
    /\ (pc = "attempt" /\ intent' = intent + 1 /\ intent >= 1) => Cooldown(ops)
    /\ (pc = "attempt" /\ seqResult' # seqResult) => ~Cooldown(ops)

C21_CooldownBetweenAttempts == [][C21_Step]_vars

\* the second attempt of a sequence starts, after the cooldown
C21_Witness ==
    /\ pc = "steps"
    /\ intent = 2
    /\ stepIdx = 0
    /\ last = NoLast
    /\ HasLine(logs, "INFO", "Retrying")


(***************************************************************************)
(* C22: within one attempt of a step the polls made never exceed the       *)
(* polling_attempts of the step's settings; a poll is made only while no   *)
(* verdict has passed; and the attempt of a step that asks for validation  *)
(* becomes a success exactly at a poll whose verdict passed.               *)
(***************************************************************************)
PollBudget == mission_steps[step_index][Len(mission_steps[step_index])].polling_attempts

Validated(os, answer) == \E i \in DOMAIN os : os[i] = Op("validate", <<answer>>, <<>>)

C22_State ==
    rpc = "poll" =>
      /\ val_attempt <= PollBudget
      /\ Cardinality({ f \in Range(val_files) :
                         f.a = step_index - 1 /\ f.b = attempts }) = val_attempt

C22_Step ==
    /\ (rpc = "poll" /\ val_attempt' # val_attempt) =>
         /\ run_success = "False"
         /\ val_attempt < PollBudget
         /\ val_attempt' = val_attempt + 1
    /\ (rpc = "poll" /\ run_success = "True") =>
         /\ val_attempt' = val_attempt
         /\ val_files' = val_files
         /\ rpc' = "while"
    /\ (rpc = "poll" /\ run_success = "False") =>
         (run_success' = "True" <=> Validated(ops', "passed"))
    /\ (rpc = "actions" /\ run_success' = "True") =>
         \A i \in DOMAIN mission_steps[step_index] :
           ~mission_steps[step_index][i].prompt_ia

C22_PollBudget == [] C22_State /\ [][C22_Step]_vars

\* the first poll did not pass, the second one did
C22_Witness ==
    /\ rpc = "poll"
    /\ val_attempt = 2
    /\ run_success = "True"
    /\ Validated(ops, "passed")


(***************************************************************************)
(* C23: the first poll of an attempt is made with no polling delay before  *)
(* it, and before each later poll one polling delay is applied.            *)
(***************************************************************************)
PollingDelays(os) ==
    Cardinality({ i \in DOMAIN os : os[i] = Op("sleep", <<"polling_delay">>, <<>>) })

Polled(os) == \E i \in DOMAIN os : os[i] = Op("screenshot", <<>>, <<>>)

C23_OneDelayBeforeLaterPolls ==
    (rpc = "poll" /\ Polled(ops)) =>
      PollingDelays(ops) = IF val_attempt > 1 THEN 1 ELSE 0


(***************************************************************************)
(* C24: a poll whose Oracle call errored counts as a verdict that did not  *)
(* pass and not as an exception: the attempt goes on (same attempt, no     *)
(* cooldown, the polling loop is not left), and while budget remains the   *)
(* next thing that happens is the next poll.                               *)
(***************************************************************************)
C24_Step ==
    /\ (rpc = "poll" /\ Validated(ops', "error")) =>
         /\ rpc' = "poll"
         /\ run_success' = "False"
         /\ attempts' = attempts
         /\ action_index' = action_index
         /\ step_index' = step_index
         /\ \A i \in DOMAIN ops' : ops'[i] # Op("sleep", <<"5">>, <<>>)
    /\ (rpc = "poll" /\ Validated(ops, "error") /\ val_attempt < PollBudget) =>
         /\ val_attempt' = val_attempt + 1
         /\ Polled(ops')
         /\ attempts' = attempts

C24_OracleErrorIsFailedVerdict == [][C24_Step]_vars

\* the poll after an errored one has been made, in the same attempt
C24_Witness ==
    /\ rpc = "poll"
    /\ val_attempt = 2
    /\ attempts = 1
    /\ faults >= 1
    /\ Validated(ops, "error")


(***************************************************************************)
(* C25: a polling loop that ends without a passing verdict fails the       *)
(* attempt of the step.  While attempts remain the cooldown is slept and   *)
(* the actions of the same step are run again from the first one; after    *)
(* max_retries failed attempts the mission stops as a failure and no later *)
(* step is started.                                                        *)
(***************************************************************************)
C25_Step ==
    /\ (rpc = "poll" /\ run_success = "False" /\ val_attempt >= PollBudget) =>
         /\ rpc' = "while"
         /\ run_success' = "False"
         /\ step_index' = step_index
         /\ attempts' = attempts
         /\ (\E i \in DOMAIN ops' : ops'[i] = Op("sleep", <<"5">>, <<>>))
              <=> attempts < max_retries
    /\ (rpc = "while" /\ run_success = "False" /\ attempts < max_retries) =>
         /\ rpc' = "actions"
         /\ attempts' = attempts + 1
         /\ action_index' = 0
         /\ step_index' = step_index
    /\ (rpc = "while" /\ run_success = "False" /\ attempts >= max_retries) =>
         /\ rpc' = "finally"
         /\ attempts = max_retries
    /\ rpc \in {"finally", "cleanup", "done", "raised"} =>
         /\ step_index' = step_index
         /\ run_success' = run_success
         /\ rpc' \in {"finally", "cleanup", "done", "raised"}

C25_ExhaustedBudgetFailsAttempt == [][C25_Step]_vars

\* the first of two steps used up its polls in every one of its attempts
C25_Witness ==
    /\ rpc = "finally"
    /\ run_success = "False"
    /\ attempts = max_retries
    /\ val_attempt = PollBudget
    /\ step_index = 1
    /\ Len(mission_steps) = 2
    /\ Len(val_files) = max_retries


(***************************************************************************)
(* C26: a navigate step issues exactly one driver operation: a reload when *)
(* the location of the page and the target are equal once the trailing     *)
(* separators of both are removed, a goto of the target otherwise.         *)
(***************************************************************************)
IsDriverOp(o) == o.op # "sleep"

\* the operations issued to the driver: everything but the sleeps of the loop
DriverOps(os) == SelectSeq(os, IsDriverOp)

NavigateNext ==
    /\ pc = "steps"
    /\ stepIdx < Len(sequences[seqIdx].steps)
    /\ sequences[seqIdx].steps[stepIdx + 1].action = "navigate"

C26_Step ==
    NavigateNext =>
      LET target == sequences[seqIdx].steps[stepIdx + 1].data
      IN  DriverOps(ops') = IF RStripChar(url, "/") = RStripChar(target, "/")
                 THEN <<Op("reload", <<>>, <<>>)>>
                 ELSE <<Op("goto", target, <<>>)>>

PostDelay == Op("sleep", <<"wait_after">>, <<>>)

PostDelays(os) == { i \in DOMAIN os : os[i] = PostDelay }

C27_Step ==
    (pc = "steps" /\ stepIdx < Len(sequences[seqIdx].steps)) =>
      LET step == sequences[seqIdx].steps[stepIdx + 1]
      IN  IF last'.err = <<>>
          THEN /\ stepIdx' = stepIdx + 1
               /\ PostDelays(ops') = IF step.wait_after > 0 THEN {Len(ops')} ELSE {}
          ELSE PostDelays(ops') = {}

C27_PostDelayAfterSuccess == [][C27_Step]_vars

\* a first step that issued a driver call and then slept its post-delay,
\* with a second step still to come
C27_Witness ==
    /\ pc = "steps"
    /\ stepIdx = 1
    /\ last.idx = 1
    /\ last.err = <<>>
    /\ Len(sequences[seqIdx].steps) = 2
    /\ Len(ops) = 2
    /\ ops[2] = PostDelay


(***************************************************************************)
(* C28: a step whose kind is none of navigate, input, click, wait, captcha *)
(* and dynamic_input causes no driver action, is logged as an unknown      *)
(* kind, and does not fail: the attempt proceeds to the next step.         *)
(***************************************************************************)
KnownKinds == {"navigate", "input", "click", "wait", "captcha", "dynamic_input"}

UnknownKindRan ==
    /\ last # NoLast
    /\ LastStep.action \notin KnownKinds

C28_UnknownKindLoggedAndSkipped ==
    UnknownKindRan =>
      /\ DriverOps(ops) = <<>>
      /\ ~last.raised
      /\ last.err = <<>>
      /\ pc = "steps"
      /\ stepIdx = last.idx
      /\ \E i \in DOMAIN LastStepLines :
           LastStepLines[i].text \notin {"Executing Step", "Waiting"}


(***************************************************************************)
(* C29: when process_sequence returns True, one attempt, the last one, ran *)
(* every step of the sequence, none of its mandatory steps raised, and the *)
(* target, if the sequence has one, was found in that attempt.  Read from  *)
(* the lines logged since the last "Attempt" line.                         *)
(***************************************************************************)
AttemptLines(ls) ==
    LET starts == { i \in DOMAIN ls : ls[i].text = "Attempt" }
        from == CHOOSE i \in starts : \A j \in starts : j <= i
    IN  SubSeq(ls, from, Len(ls))

IsStepLine(l) == l.text = "Executing Step"

StepLines(ls) == SelectSeq(ls, IsStepLine)

OptionalText(step) == IF step.optional THEN "True" ELSE "False"

C29_Step ==
    (seqResult' # seqResult /\ seqResult'[seqIdx] = "True") =>
      LET seq == sequences[seqIdx]
          L == AttemptLines(logs')
      IN  /\ pc = "steps"
          /\ intent >= 1
          /\ stepIdx = Len(seq.steps)
          /\ Len(StepLines(L)) = Len(seq.steps)
          /\ \A i \in DOMAIN seq.steps :
               StepLines(L)[i].arg = <<seq.steps[i].action, OptionalText(seq.steps[i])>>
          /\ \A i \in DOMAIN L :
               /\ L[i].level # "ERROR"
               /\ L[i].text # "FAILURE: Target NOT found"
               /\ L[i].text = "Optional step failed/skipped. Continuing" =>
                    \E j \in 1..(i - 1) :
                      /\ IsStepLine(L[j])
                      /\ L[j].arg[2] = "True"
                      /\ \A k \in (j + 1)..(i - 1) : ~IsStepLine(L[k])
          /\ IF Truthy(seq.target_element)
             THEN /\ HasLine(L, "INFO", "SUCCESS: Target found")
                  /\ ops' = <<Op("wait_for_selector", seq.target_element, <<"target">>)>>
             ELSE /\ HasLine(L, "INFO", "SUCCESS: Sequence completed (no target defined)")
                  /\ ops' = <<>>

C29_SuccessWithinOneAttempt == [][C29_Step]_vars

\* True was returned by a second attempt, after a first one that failed
C29_Witness ==
    /\ seqIdx = 1
    /\ seqResult[1] = "True"
    /\ pc = "next_seq"
    /\ intent = 2
    /\ Len(sequences[1].steps) = 2
    /\ Truthy(sequences[1].target_element)
    /\ HasLine(logs, "ERROR", "Error in step")


(***************************************************************************)
(* C30: every attempt, also one that follows a failed attempt, starts at   *)
(* the first step of the sequence and dispatches the steps in their listed *)
(* order; it never resumes at or after the step that failed.               *)
(***************************************************************************)
C30_State ==
    pc = "steps" =>
      LET seq == sequences[seqIdx]
          S == StepLines(AttemptLines(logs))
      IN  /\ Len(S) = stepIdx
          /\ stepIdx <= Len(seq.steps)
          /\ \A i \in DOMAIN S :
               S[i].arg = <<seq.steps[i].action, OptionalText(seq.steps[i])>>

C30_Step ==
    /\ (pc = "attempt" /\ intent' # intent) =>
         /\ intent' = intent + 1
         /\ stepIdx' = 0
         /\ pc' = "steps"
    /\ (pc = "steps" /\ dispatched' # dispatched) =>
         /\ last'.idx = stepIdx + 1
         /\ last'.intent = intent
         /\ IF last'.raised
            THEN stepIdx' = stepIdx /\ pc' = "retry"
            ELSE stepIdx' = stepIdx + 1 /\ pc' = "steps"
    /\ (pc \in {"steps", "retry"}) => intent' = intent

C30_AttemptStartsAtFirstStep == [] C30_State /\ [][C30_Step]_vars

\* a second attempt has run the first step again, after the first attempt
\* failed at the second step
C30_Witness ==
    /\ pc = "steps"
    /\ intent = 2
    /\ stepIdx = 1
    /\ last.idx = 1
    /\ last.intent = 2
    /\ dispatched[seqIdx] = 3
    /\ HasLine(logs, "INFO", "Retrying")


(***************************************************************************)
(* C31: when every driver call returns or raises, execute terminates for   *)
(* every finite mission; each sequence is run at most once, in list order, *)
(* and the steps dispatched for a sequence are at most its number of       *)
(* attempts times the number of its steps, the number of attempts being    *)
(* intents_number, or none when intents_number is negative.                *)
(***************************************************************************)
Attempts(seq) == IF seq.intents_number > 0 THEN seq.intents_number ELSE 0

C31_State ==
    \A i \in DOMAIN sequences :
      /\ dispatched[i] <= Attempts(sequences[i]) * Len(sequences[i].steps)
      /\ i > seqIdx => (dispatched[i] = 0 /\ seqResult[i] = "none")

C31_Step ==
    /\ seqIdx' \in {seqIdx, seqIdx + 1}
    /\ \A i \in DOMAIN sequences :
         /\ dispatched'[i] # dispatched[i] =>
              (i = seqIdx /\ seqResult[i] = "none" /\ dispatched'[i] = dispatched[i] + 1)
         /\ seqResult[i] # "none" => seqResult'[i] = seqResult[i]
         /\ seqResult'[i] # seqResult[i] => i = seqIdx

=============================================================================
